---- MODULE Spec2Model ----
(***************************************************************************)
(* Model of the raml_spec crate: RamlSpec::from_reader (src/src/lib.rs),   *)
(* Protocol::try_from (src/src/lib.rs, mod protocol) and the Uri wrapper   *)
(* (src/src/uri.rs).                                                       *)
(*                                                                         *)
(* Text values (Rust String / &str) are sequences of one-character         *)
(* strings, so that case, whitespace and URI syntax are observable.        *)
(* Mapping keys and error/variant tags are TLA+ strings.                   *)
(*                                                                         *)
(* The YAML decoder (yaml_rust) and the URI parser (uriparse) are          *)
(* external crates.  The text handed to YamlLoader is represented by what  *)
(* it decodes to (a scan error, or a sequence of documents); the URI       *)
(* parser is modelled by the RFC 3986 grammar restricted to UriAlphabet.   *)
(***************************************************************************)
EXTENDS Integers, Sequences, FiniteSets, TLC

VARIABLES call, ret, parsed, pc

vars == <<call, ret, parsed, pc>>

\* ------------------------------------------------------------------ bounds
MaxProtocols == 3
MaxUriLen == 4

\* --------------------------------------------------------- Option / Result
None == [some |-> FALSE]
Some(v) == [some |-> TRUE, v |-> v]
Ok(v) == [tag |-> "Ok", v |-> v]
Err(e) == [tag |-> "Err", e |-> e]

\* ------------------------------------------------------- field-name consts
TITLE == "title"
DESCRIPTION == "description"
VERSION == "version"
BASE_URI == "baseUri"
PROTOCOLS == "protocols"

HTTP == <<"H", "T", "T", "P">>
HTTPS == <<"H", "T", "T", "P", "S">>

\* ------------------------------------------------------ yaml_rust::Yaml
YString(s) == [tag |-> "String", s |-> s]
YInteger(i) == [tag |-> "Integer", i |-> i]
YBoolean(b) == [tag |-> "Boolean", b |-> b]
YNull == [tag |-> "Null"]
YArray(a) == [tag |-> "Array", a |-> a]
YHash(h) == [tag |-> "Hash", h |-> h]
BadValue == [tag |-> "BadValue"]

\* yaml[KEY]: the node under KEY of a mapping; BadValue when the key is
\* missing or the node is not a mapping.
Index(yaml, key) ==
    IF yaml.tag = "Hash" /\ key \in DOMAIN yaml.h THEN yaml.h[key] ELSE BadValue

as_str(yaml) == IF yaml.tag = "String" THEN Some(yaml.s) ELSE None

as_vec(yaml) == IF yaml.tag = "Array" THEN Some(yaml.a) ELSE None

\* -------------------------------------------------------------- mod protocol
Http == "Http"
Https == "Https"

UnsupportedProtocol(s) == [kind |-> "UnsupportedProtocol", text |-> s]
InvalidYamlValue == [kind |-> "InvalidYamlValue"]

\* Variant: the spelling is compared ignoring ASCII case.
ToUpper(c) ==
    CASE c = "h" -> "H" [] c = "t" -> "T" [] c = "p" -> "P" [] c = "s" -> "S"
      [] OTHER -> c

UpperText(s) == [i \in 1..Len(s) |-> ToUpper(s[i])]

Protocol_try_from_ignore_case(value) ==
    IF value.tag = "String" /\ UpperText(value.s) = HTTP THEN Ok(Http)
    ELSE IF value.tag = "String" /\ UpperText(value.s) = HTTPS THEN Ok(Https)
    ELSE IF value.tag = "String" THEN Err(UnsupportedProtocol(value.s))
    ELSE Err(InvalidYamlValue)

\* impl TryFrom<Yaml> for Protocol
Protocol_try_from(value) ==
    IF value.tag = "String" /\ value.s = HTTP THEN Ok(Http)
    ELSE IF value.tag = "String" /\ value.s = HTTPS THEN Ok(Https)
    ELSE IF value.tag = "String" THEN Err(UnsupportedProtocol(value.s))
    ELSE Err(InvalidYamlValue)

\* ----------------------------------------------------- uriparse (external)
UriAlphabet == {"a", "A", "1", ":", "/", " "}

IsAlpha(c) == c \in {"a", "A"}
IsDigit(c) == c = "1"
IsAlnum(c) == IsAlpha(c) \/ IsDigit(c)
Lower(c) == IF c = "A" THEN "a" ELSE c

\* Position of the first element of s satisfying c = ch, or 0.
FirstIndex(s, ch) ==
    IF \E i \in 1..Len(s) : s[i] = ch
    THEN CHOOSE i \in 1..Len(s) : s[i] = ch /\ \A j \in 1..(i - 1) : s[j] # ch
    ELSE 0

\* scheme = ALPHA *( ALPHA / DIGIT / "+" / "-" / "." )
IsScheme(s) == Len(s) > 0 /\ IsAlpha(s[1]) /\ \A i \in 1..Len(s) : IsAlnum(s[i])

\* authority = host [ ":" port ], host = reg-name, port = *DIGIT
IsAuthority(s) ==
    LET k == FirstIndex(s, ":")
        host == IF k = 0 THEN s ELSE SubSeq(s, 1, k - 1)
        port == IF k = 0 THEN <<>> ELSE SubSeq(s, k + 1, Len(s))
    IN  /\ \A i \in 1..Len(host) : IsAlnum(host[i])
        /\ \A i \in 1..Len(port) : IsDigit(port[i])

\* path = *( pchar / "/" ), pchar including ":" ; a space is never allowed
IsPath(s) == \A i \in 1..Len(s) : IsAlnum(s[i]) \/ s[i] \in {":", "/"}

\* uriparse::URI::try_from(&str): Ok(structured view) or Err(URIError).
\* The scheme is normalised to lower case in the structured view.
ParsedUri_try_from(raw) ==
    LET k == FirstIndex(raw, ":")
        scheme == IF k = 0 THEN <<>> ELSE SubSeq(raw, 1, k - 1)
        rest == IF k = 0 THEN raw ELSE SubSeq(raw, k + 1, Len(raw))
        hasAuth == Len(rest) >= 2 /\ rest[1] = "/" /\ rest[2] = "/"
        afterAuth == IF hasAuth THEN SubSeq(rest, 3, Len(rest)) ELSE rest
        slash == FirstIndex(afterAuth, "/")
        authority == IF ~hasAuth THEN <<>>
                     ELSE IF slash = 0 THEN afterAuth
                     ELSE SubSeq(afterAuth, 1, slash - 1)
        path == IF ~hasAuth THEN rest
                ELSE IF slash = 0 THEN <<>>
                ELSE SubSeq(afterAuth, slash, Len(afterAuth))
    IN  IF \E i \in 1..Len(raw) : raw[i] = " " THEN Err("InvalidCharacter")
        ELSE IF ~IsScheme(scheme) THEN Err("NotURI")
        ELSE IF hasAuth /\ ~IsAuthority(authority) THEN Err("InvalidPort")
        ELSE IF ~IsPath(path) THEN Err("InvalidCharacter")
        ELSE Ok([scheme |-> [i \in 1..Len(scheme) |-> Lower(scheme[i])],
                 authority |-> IF hasAuth THEN Some(authority) ELSE None,
                 path |-> path])

\* ------------------------------------------------------------------ uri.rs
InvalidSyntax(e) == [kind |-> "InvalidSyntax", source |-> e]

\* The text uriparse prints for a structured view (Display for URI).
ParsedUri_to_string(p) ==
    p.scheme \o <<":">>
        \o (IF p.authority.some THEN <<"/", "/">> \o p.authority.v ELSE <<>>)
        \o p.path

\* Variant: the Uri keeps the text of the parsed view, not the input.
Uri_from_str_normalized(raw) ==
    LET p == ParsedUri_try_from(raw)
    IN  IF p.tag = "Err" THEN Err(InvalidSyntax(p.e))
        ELSE Ok([raw |-> ParsedUri_to_string(p.v)])

\* impl FromStr for Uri
Uri_from_str(raw) ==
    LET p == ParsedUri_try_from(raw)
    IN  IF p.tag = "Err" THEN Err(InvalidSyntax(p.e)) ELSE Ok([raw |-> raw])

\* Uri::parsed: re-parses the stored text; .expect panics on failure.
Uri_parsed(uri) ==
    LET p == ParsedUri_try_from(uri.raw)
    IN  IF p.tag = "Ok" THEN [tag |-> "Return", v |-> p.v]
        ELSE [tag |-> "Panic", msg |-> "Failed to parse."]

\* ------------------------------------------------------- lib.rs ParseError
FieldNotFound(f) == [kind |-> "FieldNotFound", field |-> f]
IncorrectYamlSyntax(e) == [kind |-> "IncorrectYamlSyntax", source |-> e]
FileIsEmpty == [kind |-> "FileIsEmpty"]
IncorrectUri(e) == [kind |-> "IncorrectUri", source |-> e]
IncorrectProtocol(e) == [kind |-> "IncorrectProtocol", source |-> e]

\* ---------------------------------------------------- RamlSpec::from_reader
\* reader.read_to_string(&mut raml): the buffer holds what the reader
\* delivered; the io::Result is mapped and dropped (let _ = ...).
read_to_string(reader) == reader.content

\* YamlLoader::load_from_str(&raml)?  : a scan error, or the documents.
load_from_str(raml) ==
    IF raml.kind = "malformed" THEN Err(raml.scan_error) ELSE Ok(raml.docs)

\* Variant: an empty document list is read as one absent document.
first_document_or_bad_value(yaml_vec) ==
    IF Len(yaml_vec) = 0 THEN Ok(BadValue) ELSE Ok(yaml_vec[1])

\* yaml_vec.first().ok_or(ParseError::FileIsEmpty)?
first_document(yaml_vec) ==
    IF Len(yaml_vec) = 0 THEN Err(FileIsEmpty) ELSE Ok(yaml_vec[1])

RECURSIVE TrimStart(_)
TrimStart(s) == IF s # <<>> /\ Head(s) = " " THEN TrimStart(Tail(s)) ELSE s

RECURSIVE TrimEnd(_)
TrimEnd(s) ==
    IF s # <<>> /\ s[Len(s)] = " " THEN TrimEnd(SubSeq(s, 1, Len(s) - 1)) ELSE s

\* Variant: the title is trimmed.
title_field_trimmed(yaml) ==
    LET s == as_str(Index(yaml, TITLE))
    IN  IF s.some THEN Ok(TrimEnd(TrimStart(s.v))) ELSE Err(FieldNotFound(TITLE))

\* Variant: a missing or non-string title becomes the empty title.
title_field_or_default(yaml) ==
    LET s == as_str(Index(yaml, TITLE))
    IN  IF s.some THEN Ok(s.v) ELSE Ok(<<>>)

\* title: yaml[TITLE].as_str().ok_or(FieldNotFound(TITLE.to_string()))?.to_string()
title_field(yaml) ==
    LET s == as_str(Index(yaml, TITLE))
    IN  IF s.some THEN Ok(s.v) ELSE Err(FieldNotFound(TITLE))

\* Variant: an integer description is kept as its decimal text.
description_field_stringify(yaml) ==
    LET n == Index(yaml, DESCRIPTION)
    IN  IF n.tag = "Integer" THEN Some(<<"5">>) ELSE as_str(n)

\* description: yaml[DESCRIPTION].as_str().map(String::from)
description_field(yaml) == as_str(Index(yaml, DESCRIPTION))

\* version: yaml[VERSION].as_str().map(String::from)
version_field(yaml) == as_str(Index(yaml, VERSION))

\* base_uri: yaml[BASE_URI].as_str().map(FromStr::from_str).transpose()?
base_uri_field(yaml) ==
    LET s == as_str(Index(yaml, BASE_URI))
    IN  IF ~s.some THEN Ok(None)
        ELSE LET r == Uri_from_str(s.v)
             IN  IF r.tag = "Err" THEN Err(IncorrectUri(r.e)) ELSE Ok(Some(r.v))

\* Variant: each converted element replaces the set instead of joining it.
RECURSIVE collect_protocols_keep_last(_, _)
collect_protocols_keep_last(protocols, acc) ==
    IF protocols = <<>> THEN Ok(acc)
    ELSE LET r == Protocol_try_from(Head(protocols))
         IN  IF r.tag = "Err" THEN r
             ELSE collect_protocols_keep_last(Tail(protocols), {r.v})

\* Variant: every element is converted and the last Err is the result.
RECURSIVE collect_protocols_last_error(_, _)
collect_protocols_last_error(protocols, acc) ==
    IF protocols = <<>> THEN Ok(acc)
    ELSE LET r == Protocol_try_from(Head(protocols))
             rest == collect_protocols_last_error(
                         Tail(protocols), IF r.tag = "Ok" THEN acc \cup {r.v} ELSE acc)
         IN  IF rest.tag = "Err" THEN rest
             ELSE IF r.tag = "Err" THEN r
             ELSE rest

\* protocols.iter().cloned().map(Protocol::try_from)
\*     .collect::<Result<HashSet<_>, _>>() : elements are converted in
\* sequence order; the first Err ends the iteration and is the result.
RECURSIVE collect_protocols(_, _)
collect_protocols(protocols, acc) ==
    IF protocols = <<>> THEN Ok(acc)
    ELSE LET r == Protocol_try_from(Head(protocols))
         IN  IF r.tag = "Err" THEN r
             ELSE collect_protocols(Tail(protocols), acc \cup {r.v})

\* Variant: a bare string is read as a one-element sequence.
protocols_field_scalar_as_list(yaml) ==
    LET n == Index(yaml, PROTOCOLS)
        v == IF n.tag = "String" THEN Some(<<n>>) ELSE as_vec(n)
    IN  IF ~v.some THEN Ok(None)
        ELSE LET r == collect_protocols(v.v, {})
             IN  IF r.tag = "Err" THEN Err(IncorrectProtocol(r.e)) ELSE Ok(Some(r.v))

\* protocols: yaml[PROTOCOLS].as_vec().map(|protocols| ...).transpose()?
protocols_field(yaml) ==
    LET v == as_vec(Index(yaml, PROTOCOLS))
    IN  IF ~v.some THEN Ok(None)
        ELSE LET r == collect_protocols(v.v, {})
             IN  IF r.tag = "Err" THEN Err(IncorrectProtocol(r.e)) ELSE Ok(Some(r.v))

\* Variant: protocols is converted before base_uri.
build_spec_protocols_first(yaml) ==
    LET t == title_field(yaml)
        d == description_field(yaml)
        v == version_field(yaml)
        b == base_uri_field(yaml)
        p == protocols_field(yaml)
    IN  IF t.tag = "Err" THEN t
        ELSE IF p.tag = "Err" THEN p
        ELSE IF b.tag = "Err" THEN b
        ELSE Ok([title |-> t.v, description |-> d, version |-> v,
                 base_uri |-> b.v, protocols |-> p.v])

\* Ok(Self { title: ..?, description, version, base_uri: ..?, protocols: ..? })
\* The field expressions are evaluated in the order written; each `?`
\* returns the error at once.
build_spec(yaml) ==
    LET t == title_field(yaml)
        d == description_field(yaml)
        v == version_field(yaml)
        b == base_uri_field(yaml)
        p == protocols_field(yaml)
    IN  IF t.tag = "Err" THEN t
        ELSE IF b.tag = "Err" THEN b
        ELSE IF p.tag = "Err" THEN p
        ELSE Ok([title |-> t.v, description |-> d, version |-> v,
                 base_uri |-> b.v, protocols |-> p.v])

from_reader(reader) ==
    LET raml == read_to_string(reader)
        yaml_vec == load_from_str(raml)
    IN  IF yaml_vec.tag = "Err" THEN Err(IncorrectYamlSyntax(yaml_vec.e))
        ELSE LET yaml == first_document(yaml_vec.v)
             IN  IF yaml.tag = "Err" THEN yaml ELSE build_spec(yaml.v)

\* ------------------------------------------------------------------ inputs
\* Marks a key that the enumerated mapping does not contain.
Absent == [tag |-> "Absent"]

EmptyHash == [k \in {} |-> BadValue]

NonStringNodes == {YInteger(5), YBoolean(TRUE), YNull, YArray(<<>>), YHash(EmptyHash)}

TitleNodes ==
    {Absent, YString(<<"X">>), YString(<<" ", "x", " ">>)} \cup NonStringNodes

DescriptionNodes == {Absent, YString(<<"d">>), YInteger(5), YArray(<<>>)}

VersionNodes == {Absent, YString(<<"1">>), YNull, YHash(EmptyHash)}

BaseUriNodes ==
    {Absent, YString(<<"a", ":", "/">>), YString(<<"A", ":", "a">>),
     YString(<<"a", " ", "a">>), YInteger(5)}

FTP == <<"F", "T", "P">>

ProtocolElements == {YString(HTTP), YString(HTTPS), YString(FTP), YInteger(5)}

SeqsUpTo(S, n) == UNION {[1..k -> S] : k \in 0..n}

ProtocolsNodes ==
    {Absent, YString(HTTP), YString(FTP), YInteger(5), YHash(EmptyHash)}
        \cup {YArray(a) : a \in SeqsUpTo(ProtocolElements, MaxProtocols)}

\* The mapping holding exactly the keys of f that are not Absent.
MkHash(f) == YHash([k \in {x \in DOMAIN f : f[x] # Absent} |-> f[k]])

Mappings ==
    {MkHash([title |-> t, description |-> d, version |-> v, baseUri |-> b,
             protocols |-> p]) :
        t \in TitleNodes, d \in DescriptionNodes, v \in VersionNodes,
        b \in BaseUriNodes, p \in ProtocolsNodes}

\* Document roots that are not mappings.
OtherRoots == {YString(<<"X">>), YInteger(5), YNull, YArray(<<YString(<<"X">>)>>)}

SecondDocs ==
    {YNull, MkHash([title |-> YString(<<"Y">>)]),
     MkHash([title |-> YString(<<"Y">>), baseUri |-> YString(<<" ">>)])}

\* Texts that are malformed, empty, rooted in a non-mapping, or hold two
\* documents.
SmallTexts ==
    {[kind |-> "malformed", scan_error |-> e] : e \in {"scan error 1", "scan error 2"}}
        \cup {[kind |-> "decoded", docs |-> <<>>]}
        \cup {[kind |-> "decoded", docs |-> <<y>>] : y \in OtherRoots}
        \cup {[kind |-> "decoded", docs |-> <<y, z>>] :
                y \in OtherRoots \cup {MkHash([title |-> YString(<<"X">>)]),
                                       MkHash([version |-> YString(<<"1">>)])},
                z \in SecondDocs}

Texts == SmallTexts \cup {[kind |-> "decoded", docs |-> <<y>>] : y \in Mappings}

\* A reader delivers its whole text, or fails part-way and leaves what it
\* delivered so far in the buffer.
Readers ==
    {[content |-> t, read |-> "Ok"] : t \in Texts}
        \cup {[content |-> t, read |-> "Err"] : t \in SmallTexts}

ProtocolInputs ==
    {YString(s) : s \in {HTTP, HTTPS, FTP, <<>>, <<"h", "t", "t", "p">>,
                         <<"H", "t", "t", "p", "s">>, <<"H", "T", "T", "P", " ">>,
                         <<"H", "T", "T", "P", "S", "S">>}}
        \cup NonStringNodes \cup {BadValue, YArray(<<YString(HTTP)>>)}

UriInputs == SeqsUpTo(UriAlphabet, MaxUriLen)

NoValue == [tag |-> "NoValue"]

\* ----------------------------------------------------------- state machine
Init ==
    /\ \/ \E r \in Readers : call = [op |-> "from_reader", reader |-> r]
       \/ \E y \in ProtocolInputs : call = [op |-> "Protocol::try_from", value |-> y]
       \/ \E s \in UriInputs : call = [op |-> "Uri::from_str", raw |-> s]
    /\ ret = NoValue
    /\ parsed = NoValue
    /\ pc = "call"

FromReader ==
    /\ pc = "call"
    /\ call.op = "from_reader"
    /\ ret' = from_reader(call.reader)
    /\ pc' = "done"
    /\ UNCHANGED <<call, parsed>>

ProtocolTryFrom ==
    /\ pc = "call"
    /\ call.op = "Protocol::try_from"
    /\ ret' = Protocol_try_from(call.value)
    /\ pc' = "done"
    /\ UNCHANGED <<call, parsed>>

UriFromStr ==
    /\ pc = "call"
    /\ call.op = "Uri::from_str"
    /\ ret' = Uri_from_str(call.raw)
    /\ pc' = "done"
    /\ UNCHANGED <<call, parsed>>

\* The Uri a finished call handed out: the result of Uri::from_str, or the
\* public base_uri field of a RamlSpec.
HeldUri ==
    IF pc = "call" \/ ret.tag # "Ok" THEN None
    ELSE IF call.op = "Uri::from_str" THEN Some(ret.v)
    ELSE IF call.op = "from_reader" THEN ret.v.base_uri
    ELSE None

UriParsed ==
    /\ pc = "done"
    /\ HeldUri.some
    /\ parsed' = Uri_parsed(HeldUri.v)
    /\ pc' = "parsed"
    /\ UNCHANGED <<call, ret>>

Next == FromReader \/ ProtocolTryFrom \/ UriFromStr \/ UriParsed

Spec == Init /\ [][Next]_vars

\* ------------------------------------------------------- reading the state
FromReaderDone == pc # "call" /\ call.op = "from_reader"

Content == call.reader.content

Malformed == Content.kind = "malformed"

NoDocument == Content.kind = "decoded" /\ Len(Content.docs) = 0

HasDocument == Content.kind = "decoded" /\ Len(Content.docs) > 0

\* The first decoded document and the node it holds under a key.
Doc == Content.docs[1]

Node(key) == IF Doc.tag = "Hash" /\ key \in DOMAIN Doc.h THEN Doc.h[key] ELSE BadValue

KeyAbsent(key) == ~(Doc.tag = "Hash" /\ key \in DOMAIN Doc.h)

TitleIsString == Node("title").tag = "String"

ValidUriText(s) == ParsedUri_try_from(s).tag = "Ok"

BaseUriIsString == Node("baseUri").tag = "String"

BaseUriValid == BaseUriIsString /\ ValidUriText(Node("baseUri").s)

BaseUriInvalid == BaseUriIsString /\ ~ValidUriText(Node("baseUri").s)

IsProtocolName(e) == e.tag = "String" /\ e.s \in {<<"H", "T", "T", "P">>, <<"H", "T", "T", "P", "S">>}

ProtocolsIsSeq == Node("protocols").tag = "Array"

ProtocolsValid ==
    ProtocolsIsSeq /\ \A i \in 1..Len(Node("protocols").a) : IsProtocolName(Node("protocols").a[i])

ProtocolsInvalid ==
    ProtocolsIsSeq /\ \E i \in 1..Len(Node("protocols").a) : ~IsProtocolName(Node("protocols").a[i])

ProtocolNamed(e) == IF e.s = <<"H", "T", "T", "P">> THEN "Http" ELSE "Https"

IsErr(kind) == ret.tag = "Err" /\ ret.e.kind = kind

\* ------------------------------------------------------------------ claims

\* C1: when the first document has a string title, and baseUri and protocols
\* are each absent or valid, from_reader returns Ok and the returned title is
\* exactly that string.
C1_TitleReturnedExactly ==
    (/\ FromReaderDone
     /\ HasDocument
     /\ TitleIsString
     /\ (KeyAbsent("baseUri") \/ BaseUriValid)
     /\ (KeyAbsent("protocols") \/ ProtocolsValid))
        => (ret.tag = "Ok" /\ ret.v.title = Node("title").s)

C1_Witness ==
    /\ FromReaderDone
    /\ HasDocument
    /\ Node("title") = YString(<<" ", "x", " ">>)
    /\ BaseUriValid
    /\ ProtocolsValid
    /\ Len(Node("protocols").a) > 0
    /\ ret.tag = "Ok"
    /\ ret.v.title = <<" ", "x", " ">>

\* C2: when a first document exists and its title is missing or not a string
\* (also when the root is not a mapping), from_reader returns
\* Err(FieldNotFound("title")).
C2_TitleRequired ==
    (FromReaderDone /\ HasDocument /\ ~TitleIsString)
        => ret = [tag |-> "Err", e |-> [kind |-> "FieldNotFound", field |-> "title"]]

C2_Witness ==
    /\ FromReaderDone
    /\ HasDocument
    /\ Node("title") = YInteger(5)
    /\ BaseUriInvalid
    /\ ret = [tag |-> "Err", e |-> [kind |-> "FieldNotFound", field |-> "title"]]

\* C3: Protocol::try_from classifies every node: the string "HTTP" gives
\* Http, the string "HTTPS" gives Https, any other string s gives
\* UnsupportedProtocol carrying s, any non-string node gives InvalidYamlValue.
C3_ProtocolClassification ==
    (pc # "call" /\ call.op = "Protocol::try_from")
        => LET y == call.value
           IN  IF y.tag # "String"
                   THEN ret = [tag |-> "Err", e |-> [kind |-> "InvalidYamlValue"]]
               ELSE IF y.s = <<"H", "T", "T", "P">>
                   THEN ret = [tag |-> "Ok", v |-> "Http"]
               ELSE IF y.s = <<"H", "T", "T", "P", "S">>
                   THEN ret = [tag |-> "Ok", v |-> "Https"]
               ELSE ret = [tag |-> "Err",
                           e |-> [kind |-> "UnsupportedProtocol", text |-> y.s]]

C3_Witness ==
    /\ pc # "call"
    /\ call.op = "Protocol::try_from"
    /\ call.value = YString(<<"h", "t", "t", "p">>)
    /\ ret = [tag |-> "Err",
              e |-> [kind |-> "UnsupportedProtocol", text |-> <<"h", "t", "t", "p">>]]

\* C4: when protocols is a sequence of "HTTP"/"HTTPS" strings and a RamlSpec
\* is returned, its protocols is Some(set) holding exactly the Protocol
\* values occurring in the sequence, whatever their order and repetitions,
\* so never more than two members.
C4_ProtocolsCollapseToSet ==
    (FromReaderDone /\ HasDocument /\ ProtocolsValid /\ ret.tag = "Ok")
        => LET a == Node("protocols").a
           IN  /\ ret.v.protocols = [some |-> TRUE,
                                     v |-> {ProtocolNamed(a[i]) : i \in 1..Len(a)}]
               /\ Cardinality(ret.v.protocols.v) <= 2

C4_Witness ==
    /\ FromReaderDone
    /\ HasDocument
    /\ Node("protocols") = YArray(<<YString(HTTP), YString(HTTP), YString(HTTPS)>>)
    /\ ret.tag = "Ok"
    /\ ret.v.protocols = [some |-> TRUE, v |-> {"Http", "Https"}]

\* The error the Protocol validator owes for a rejected element.
RejectionOf(e) ==
    IF e.tag = "String" THEN [kind |-> "UnsupportedProtocol", text |-> e.s]
    ELSE [kind |-> "InvalidYamlValue"]

FirstRejected(a) ==
    CHOOSE i \in 1..Len(a) :
        ~IsProtocolName(a[i]) /\ \A j \in 1..(i - 1) : IsProtocolName(a[j])

\* C5: with a string title and a baseUri that is not rejected, a protocols
\* sequence holding a rejected element makes from_reader return
\* Err(IncorrectProtocol(e)), e being the validator error of the first
\* rejected element in sequence order.
C5_FirstRejectedProtocolReported ==
    (FromReaderDone /\ HasDocument /\ TitleIsString /\ ~BaseUriInvalid /\ ProtocolsInvalid)
        => LET a == Node("protocols").a
           IN  ret = [tag |-> "Err",
                      e |-> [kind |-> "IncorrectProtocol",
                             source |-> RejectionOf(a[FirstRejected(a)])]]

C5_Witness ==
    /\ FromReaderDone
    /\ HasDocument
    /\ TitleIsString
    /\ Node("protocols") = YArray(<<YString(HTTP), YString(FTP), YInteger(5)>>)
    /\ ret = [tag |-> "Err",
              e |-> [kind |-> "IncorrectProtocol",
                     source |-> [kind |-> "UnsupportedProtocol", text |-> <<"F", "T", "P">>]]]

\* C6: Uri::from_str succeeds exactly when the text parses as a URI; the Uri
\* then stores the input text unchanged, and a failure is InvalidSyntax
\* carrying the parser's error.  In from_reader, with a string title, a valid
\* baseUri string is never reported and is returned as Some(Uri) storing
\* exactly that string; an invalid baseUri string gives Err(IncorrectUri).
C6_UriKeepsInputText ==
    /\ (pc # "call" /\ call.op = "Uri::from_str")
          => LET p == ParsedUri_try_from(call.raw)
             IN  IF p.tag = "Ok"
                     THEN ret = [tag |-> "Ok", v |-> [raw |-> call.raw]]
                 ELSE ret = [tag |-> "Err",
                             e |-> [kind |-> "InvalidSyntax", source |-> p.e]]
    /\ (FromReaderDone /\ HasDocument /\ TitleIsString /\ BaseUriIsString)
          => LET s == Node("baseUri").s
             IN  IF ValidUriText(s)
                     THEN /\ ~IsErr("IncorrectUri")
                          /\ ret.tag = "Ok"
                                => ret.v.base_uri = [some |-> TRUE, v |-> [raw |-> s]]
                 ELSE ret = [tag |-> "Err",
                             e |-> [kind |-> "IncorrectUri",
                                    source |-> [kind |-> "InvalidSyntax",
                                                source |-> ParsedUri_try_from(s).e]]]

C6_Witness ==
    /\ FromReaderDone
    /\ HasDocument
    /\ Node("baseUri") = YString(<<"A", ":", "a">>)
    /\ ret.tag = "Ok"
    /\ ret.v.base_uri = [some |-> TRUE, v |-> [raw |-> <<"A", ":", "a">>]]

\* C7: zero decoded documents give Err(FileIsEmpty) and a text the decoder
\* rejects gives Err(IncorrectYamlSyntax) carrying the decoder's error;
\* neither error is reported in any other condition, and neither condition
\* is reported as FieldNotFound.
C7_EmptyVersusSyntaxError ==
    FromReaderDone
        => /\ NoDocument <=> ret = [tag |-> "Err", e |-> [kind |-> "FileIsEmpty"]]
           /\ Malformed <=> IsErr("IncorrectYamlSyntax")
           /\ Malformed => ret = [tag |-> "Err",
                                  e |-> [kind |-> "IncorrectYamlSyntax",
                                         source |-> Content.scan_error]]
           /\ (NoDocument \/ Malformed) => ~IsErr("FieldNotFound")

C7_Witness ==
    /\ FromReaderDone
    /\ NoDocument
    /\ ret = [tag |-> "Err", e |-> [kind |-> "FileIsEmpty"]]

\* The reader whose first document has lost description and version.
WithoutDescriptionAndVersion(reader) ==
    LET docs == reader.content.docs
        d == docs[1]
        stripped ==
            IF d.tag # "Hash" THEN d
            ELSE YHash([k \in DOMAIN d.h \ {"description", "version"} |-> d.h[k]])
    IN  [reader EXCEPT !.content.docs = <<stripped>> \o Tail(docs)]

OptionalText(node) ==
    IF node.tag = "String" THEN [some |-> TRUE, v |-> node.s] ELSE [some |-> FALSE]

\* C8: description and version never fail extraction: a string value v
\* gives Some(v), anything else (absent or another type) gives None, and
\* the outcome and the other fields are those of the same document without
\* description and version.
C8_OptionalTextFieldsLenient ==
    (FromReaderDone /\ HasDocument)
        => LET bare == from_reader(WithoutDescriptionAndVersion(call.reader))
           IN  /\ ret.tag = bare.tag
               /\ ret.tag = "Err" => ret = bare
               /\ ret.tag = "Ok" =>
                     /\ ret.v.description = OptionalText(Node("description"))
                     /\ ret.v.version = OptionalText(Node("version"))
                     /\ ret.v.title = bare.v.title
                     /\ ret.v.base_uri = bare.v.base_uri
                     /\ ret.v.protocols = bare.v.protocols

C8_Witness ==
    /\ FromReaderDone
    /\ HasDocument
    /\ Node("description") = YInteger(5)
    /\ Node("version") = YString(<<"1">>)
    /\ ret.tag = "Ok"
    /\ ret.v.description = [some |-> FALSE]
    /\ ret.v.version = [some |-> TRUE, v |-> <<"1">>]

\* C9: from_reader reports the first failure in the order: syntax error,
\* empty document, title, baseUri, protocols; and returns a RamlSpec only
\* when none of them fails.
C9_FirstFailureInFixedOrder ==
    FromReaderDone
        => IF Malformed THEN IsErr("IncorrectYamlSyntax")
           ELSE IF NoDocument THEN IsErr("FileIsEmpty")
           ELSE IF ~TitleIsString THEN IsErr("FieldNotFound") /\ ret.e.field = "title"
           ELSE IF BaseUriInvalid THEN IsErr("IncorrectUri")
           ELSE IF ProtocolsInvalid THEN IsErr("IncorrectProtocol")
           ELSE ret.tag = "Ok"

C9_Witness ==
    /\ FromReaderDone
    /\ HasDocument
    /\ TitleIsString
    /\ BaseUriInvalid
    /\ ProtocolsInvalid
    /\ IsErr("IncorrectUri")

====
